---- MODULE Spec2Model ----
(***************************************************************************)
(* Model of vignette's candidate pipeline: GeneratorGraph (generator.py)   *)
(* driven by stage functions that go through the retry-wrapped remote      *)
(* invocation layer AI.retry (ai.py).                                      *)
(*                                                                         *)
(* One behaviour is one GeneratorGraph run: invoke() broadcasts            *)
(* num_candidates GENERATE_CANDIDATE tasks, the tasks run concurrently and *)
(* each makes up to MaxAttempts underlying remote calls, the writes of the *)
(* finished superstep are reduced with operator.add into `candidates`,     *)
(* then SELECT_WINNER, REFINE, VISUALIZE and RENDER run one after another. *)
(*                                                                         *)
(* SpecDet invokes one graph with pure stand-in stage functions twice.     *)
(* SpecBot is the chat session of Bot (bot.py): the handlers of the        *)
(* updates of one chat, against any AI that returns a text, returns an     *)
(* empty result or raises.                                                 *)
(***************************************************************************)
EXTENDS Integers, Sequences, FiniteSets, TLC

\* ------------------------------------------------------------------ bounds
MaxCandidates == 3     \* largest num_candidates explored
NumTexts == 2          \* distinct texts the text model may answer with
MaxIndex == 3          \* the selector model answers an index in -MaxIndex-1..MaxIndex
NumUsers == 2          \* users who send updates to the chat
MaxMembers == 2        \* largest answer of chat.get_member_count()
MaxUpdates == 3        \* updates delivered to the chat in a behaviour

\* ------------------------------------------------------- program constants
MaxAttempts == 4       \* tenacity.stop_after_attempt(4)

\* ------------------------------------------------------------------ values
None == "None"         \* Python None in a str | None field
Unset == "unset"       \* a stage function that has not been called has no argument

Texts == {"T" \o ToString(i) : i \in 1..NumTexts}
Urls == {"U" \o ToString(i) : i \in 1..NumTexts}
\* Every underlying call that raises raises its own exception object: Exc(k)
\* is the one raised by the k-th underlying call of an invocation.
Exc(k) == "E" \o ToString(k)
Indexes == (0 - MaxIndex - 1)..MaxIndex

\* class Node(StrEnum)
GENERATE_CANDIDATE == "generate_candidate"
SELECT_WINNER == "select_winner"
REFINE == "refine"
VISUALIZE == "visualize"
RENDER == "render"
Node == {GENERATE_CANDIDATE, SELECT_WINNER, REFINE, VISUALIZE, RENDER}

VARIABLES
    standin,         \* << >>: the stage functions call the model; <<s>>: pure stand-ins s
    first_run,       \* << >>, or <<outcome>> of the first of two invocations of one graph
    caller,          \* who builds the graph: an AI method, or "direct" (the class's own signature)
    num_candidates,  \* self.num_candidates
    selector,        \* "remote" (select_scene / select_ending) or "trivial" (lambda _: 0)
    visualizer,      \* "remote" (visualize_scene) or "noop" (lambda _: None)
    renderer,        \* "remote" (render_scene) or "noop" (lambda _: None)
    pc,              \* position of the run: "call", "start", a Node, "end", "returned", "raised"
    tasks,           \* the GENERATE_CANDIDATE tasks of the fan-out superstep, by Send index
    rw,              \* retry state of the remote invocation of the running sequential node
    candidates,      \* GeneratorState.candidates
    winner_index,    \* GeneratorState.winner_index: << >> is None, <<i>> is the int i
    refined,         \* GeneratorState.refined
    visualized,      \* GeneratorState.visualized
    image_url,       \* GeneratorState.image_url
    invoked,         \* how many times each node function has been entered
    args,            \* the argument each stage function was last called with
    outs,            \* the value each stage function last returned
    final_state,     \* what invoke() returned to its caller (<< >> while nothing returned)
    raised,          \* the exception invoke()'s caller observes (None while none)
    scene,           \* context.chat_data: << >>, or <<Scene>> under SCENE_KEY
    detached,        \* Scene objects no longer in chat_data that a suspended handler holds
    next_message_id, \* id of the next scene message the bot posts
    concurrent_updates, \* the Application's setting: may handlers of one chat overlap
    member_count,    \* <<m>>: get_member_count() always answers m; << >>: it may answer anything
    handlers,        \* the handler coroutines of the chat, each with its locals
    updates          \* number of updates delivered so far

vars == <<standin, first_run, caller, num_candidates, selector, visualizer, renderer, pc, tasks, rw, candidates,
          winner_index, refined, visualized, image_url, invoked, args, outs,
          final_state, raised, scene, detached, next_message_id, concurrent_updates,
          member_count, handlers, updates>>

session ==
    <<scene, detached, next_message_id, concurrent_updates, member_count, handlers, updates>>

pipeline ==
    <<standin, first_run, caller, num_candidates, selector, visualizer, renderer, pc,
      tasks, rw, candidates, winner_index, refined, visualized, image_url, invoked,
      args, outs, final_state, raised>>

config == <<standin, caller, num_candidates, selector, visualizer, renderer>>
state == <<candidates, winner_index, refined, visualized, image_url>>

\* ------------------------------------------------------ AI.retry (tenacity)
\* The retry state of one decorated make_request() invocation.
\*   status: "idle" (not called), "running" (may make another underlying call),
\*           "returned" (make_request returned result[1]),
\*           "raised" (make_request raised exc)
\*   calls : underlying calls made;  fails: how many of them raised
\*   last  : outcome of the latest underlying call, <<"ok", v>> or <<"exc", e>>
\*   node  : the graph node whose stage function made the invocation
IdleRetry == [status |-> "idle", node |-> None, calls |-> 0, fails |-> 0,
              waits |-> << >>, last |-> << >>, result |-> << >>, exc |-> None]

\* stop=tenacity.stop_after_attempt(4)
StopAfterAttempt_late(attempt_number) == attempt_number > MaxAttempts

StopAfterAttempt(attempt_number) == attempt_number >= MaxAttempts

\* wait=tenacity.wait_exponential(): multiplier 1, exp_base 2, min 0 and no
\* max in reach, so the sleep after failed attempt n is 2 ** (n - 1) seconds.
WaitExponential_linear(attempt_number) == attempt_number

WaitExponential(attempt_number) == 2 ^ (attempt_number - 1)

\* reraise=True: the exception of the last attempt is raised as it is
Reraise_wrapped(e) == "RetryError"

Reraise(e) == e

\* A layer that swallows the last failure and hands back None.
RetryStep_sentinel(r, outcome) ==
    LET n == r.calls + 1 IN
    IF outcome[1] = "ok"
    THEN [r EXCEPT !.status = "returned", !.calls = n, !.last = outcome,
                   !.result = <<outcome[2]>>]
    ELSE IF StopAfterAttempt(n)
         THEN [r EXCEPT !.status = "returned", !.calls = n, !.fails = r.fails + 1,
                        !.last = outcome, !.result = <<None>>]
         ELSE [r EXCEPT !.status = "running", !.calls = n, !.fails = r.fails + 1,
                        !.last = outcome]

\* A layer that asks again after a first-attempt success.
RetryStep_again(r, outcome) ==
    LET n == r.calls + 1 IN
    IF outcome[1] = "ok"
    THEN IF n = 1
         THEN [r EXCEPT !.status = "running", !.calls = n, !.last = outcome]
         ELSE [r EXCEPT !.status = "returned", !.calls = n, !.last = outcome,
                        !.result = <<outcome[2]>>]
    ELSE IF StopAfterAttempt(n)
         THEN [r EXCEPT !.status = "raised", !.calls = n, !.fails = r.fails + 1,
                        !.last = outcome, !.exc = Reraise(outcome[2])]
         ELSE [r EXCEPT !.status = "running", !.calls = n, !.fails = r.fails + 1,
                        !.last = outcome]

\* One underlying call of a decorated make_request(): outcome is <<"ok", v>>
\* when the call returns v and <<"exc", e>> when it raises e.  The layer
\* sleeps only between a failed attempt and the next one.
RetryStep(r, outcome) ==
    LET n == r.calls + 1 IN
    IF outcome[1] = "ok"
    THEN [r EXCEPT !.status = "returned", !.calls = n, !.last = outcome,
                   !.result = <<outcome[2]>>]
    ELSE IF StopAfterAttempt(n)
         THEN [r EXCEPT !.status = "raised", !.calls = n, !.fails = r.fails + 1,
                        !.last = outcome, !.exc = Reraise(outcome[2])]
         ELSE [r EXCEPT !.status = "running", !.calls = n, !.fails = r.fails + 1,
                        !.waits = Append(@, WaitExponential(n)),
                        !.last = outcome]

\* What the next underlying call of invocation r can do: return one of
\* `values` or raise.
Outcomes(r, values) == {<<"ok", v>> : v \in values} \cup {<<"exc", Exc(r.calls + 1)>>}

\* A stage function that is a stand-in returns the value of a function of its
\* argument, and never raises.  The generator's argument is the original of the
\* graph, the same for every branch and every run, and the selector's the
\* joined candidates, so each of the two is given by its one value.
StandInValue_counting(node, arg, done) ==
    CASE node = "generate_candidate" -> "T" \o ToString(1 + (done % NumTexts))
      [] node = "select_winner" -> standin[1].selector
      [] OTHER -> standin[1].refiner[arg]

StandInValue(node, arg, done) ==
    CASE node = "generate_candidate" -> standin[1].generator
      [] node = "select_winner" -> standin[1].selector
      [] OTHER -> standin[1].refiner[arg]

\* What the next call of the stage function of `node` can do; `done` is the
\* number of calls of that stage function that returned before.
Calls(r, node, arg, done, values) ==
    IF standin = << >>
    THEN Outcomes(r, values)
    ELSE {<<"ok", StandInValue(node, arg, done)>>}

\* ---------------------------------------------------------- GeneratorGraph
\* One pending GENERATE_CANDIDATE task per Send, in the order of the list.
broadcast_candidates_extra(n) ==
    [i \in 1..(n + 1) |-> [IdleRetry EXCEPT !.node = GENERATE_CANDIDATE]]

broadcast_candidates(n) ==
    [i \in 1..n |-> [IdleRetry EXCEPT !.node = GENERATE_CANDIDATE]]

\* The edge GENERATE_CANDIDATE -> SELECT_WINNER fires when the superstep that
\* holds the Send tasks is over, that is when every task has returned.
JoinReady_any(ts) == \E i \in DOMAIN ts : ts[i].status = "returned"

JoinReady_never(ts) == FALSE

JoinReady(ts) == \A i \in DOMAIN ts : ts[i].status = "returned"

\* candidates: Annotated[list, operator.add]: each task wrote [candidate]; the
\* writes of a superstep are applied in task (Send index) order.
RECURSIVE ReduceAdd_prepend(_, _, _)
ReduceAdd_prepend(old, ts, i) ==
    IF i > Len(ts) THEN old
    ELSE ReduceAdd_prepend(ts[i].result \o old, ts, i + 1)

RECURSIVE ReduceAdd(_, _, _)
ReduceAdd(old, ts, i) ==
    IF i > Len(ts) THEN old
    ELSE ReduceAdd(old \o ts[i].result, ts, i + 1)

\* join_candidates: "\n\n".join(f"{index}. {text}" for index, text in enumerate(candidates))
RECURSIVE JoinParts(_, _)
JoinParts(c, k) ==
    IF k > Len(c) THEN ""
    ELSE (IF k > 1 THEN "\n\n" ELSE "") \o ToString(k - 1) \o ". " \o c[k]
         \o JoinParts(c, k + 1)

join_candidates_trailing(c) == JoinParts(c, 1) \o "\n\n"

join_candidates(c) == JoinParts(c, 1)

\* Python list indexing state.candidates[state.winner_index]
GetItem_first(c, i) == c[1]

IndexInRange(c, i) == (0 - Len(c)) <= i /\ i < Len(c)

GetItem(c, i) == IF i >= 0 THEN c[i + 1] ELSE c[Len(c) + i + 1]

\* GeneratorState(**final_dict)
GeneratorState ==
    [candidates |-> candidates, winner_index |-> winner_index, refined |-> refined,
     visualized |-> visualized, image_url |-> image_url]

\* The stage functions AI.create_scene, AI.add_action and AI.end_scene hand to
\* the GeneratorGraph constructor.
StageFunctions ==
    { [selector |-> "remote", visualizer |-> "remote", renderer |-> "remote"],
      [selector |-> "trivial", visualizer |-> "noop", renderer |-> "noop"],
      [selector |-> "remote", visualizer |-> "noop", renderer |-> "noop"] }

\* What a node does with the state of its stage function's remote invocation:
\* no node catches anything, so an exception leaves the node and the run.
NodeOutcome_default(r) ==
    CASE r.status = "returned" -> <<"write", r.result>>
      [] r.status = "raised" /\ r.node = SELECT_WINNER -> <<"write", <<0>>>>
      [] r.status = "raised" -> <<"raise", r.exc>>
      [] OTHER -> <<"wait">>

NodeOutcome(r) ==
    CASE r.status = "returned" -> <<"write", r.result>>
      [] r.status = "raised" -> <<"raise", r.exc>>
      [] OTHER -> <<"wait">>

\* ---------------------------------------------------------------------- Bot
Users == 1..NumUsers
\* The text of a reply message, and the words after /start.
MessageTexts == {"A1", "A2"}
StartArgs == {<< >>, <<"w1", "w2">>}
\* The handler coroutines of one chat that can exist at a time.
Slots == 1..2

\* telegram.User of each sender: some have a first name, some only a last
\* name, some neither (and no username).
first_name(u) == IF u % 3 = 1 THEN "F" \o ToString(u) ELSE ""
last_name(u) == IF u % 3 = 2 THEN "L" \o ToString(u) ELSE ""
username(u) == ""

\* return user.first_name or user.last_name or user.username or str(user.id)
_normalize_name(u) ==
    IF first_name(u) # "" THEN first_name(u)
    ELSE IF last_name(u) # "" THEN last_name(u)
    ELSE IF username(u) # "" THEN username(u)
    ELSE ToString(u)

\* Bot._is_scene_active
_is_scene_active_never == FALSE

_is_scene_active == scene # << >>

\* Scene(message_id=scene_message.message_id, description=..., actions={})
Scene_unanchored(message_id, description, actions) ==
    [message_id |-> 0, description |-> description, actions |-> actions]

Scene(message_id, description, actions) ==
    [message_id |-> message_id, description |-> description, actions |-> actions]

\* Bot._delete_scene: chat_data after `del context.chat_data[SCENE_KEY]` when
\* the key is there, chat_data as it is when not.
_delete_scene_keep(sc) == sc

_delete_scene(sc) == IF sc # << >> THEN << >> ELSE sc

\* update.message.reply_to_message.message_id == scene.message_id
RepliesToScene_any(target, sc) == TRUE

RepliesToScene(target, sc) == target = sc.message_id

\* `not context.args`
NoArgs_never(words) == FALSE

NoArgs(words) == words = << >>

\* Python's `not value` for a str | None.
Falsy(v) == v = None \/ v = ""

\* What awaiting a method of the AI can do: return a text, return an empty
\* result, or raise.
AIResults == {<<"ok", v>> : v \in {"T1", "T2", None, ""}} \cup {<<"exc", "Exception">>}

\* Action(name, action, outcome), stored in Scene.actions under `user`; a
\* dict keeps its keys in insertion order.
Action(u, n, a, o) == [user |-> u, name |-> n, action |-> a, outcome |-> o]

\* user_id in scene.actions
InActions_never(actions, u) == FALSE

InActions(actions, u) == \E i \in DOMAIN actions : actions[i].user = u

\* scene.actions[user_id] = Action(name=name, action=action, outcome=None)
Reserve_late(actions, u, text) == actions

Reserve(actions, u, text) == Append(actions, Action(u, _normalize_name(u), text, None))

\* del scene.actions[user_id]
DelAction(actions, u) ==
    LET keep(x) == x.user # u IN SelectSeq(actions, keep)

\* scene.actions[user_id].outcome = outcome
SetOutcome(actions, u, o) ==
    [i \in DOMAIN actions |->
        IF actions[i].user = u THEN [actions[i] EXCEPT !.outcome = o] ELSE actions[i]]

RECURSIVE JoinOutcomes(_)
JoinOutcomes(os) ==
    IF os = << >> THEN ""
    ELSE IF Len(os) = 1 THEN os[1]
    ELSE os[1] \o "\n\n" \o JoinOutcomes(Tail(os))

\* Scene.outcomes(): "\n\n".join of the outcomes that are not empty.
Scene_outcomes_unfiltered(sc) ==
    JoinOutcomes([i \in DOMAIN sc.actions |-> sc.actions[i].outcome])

Scene_outcomes(sc) ==
    LET truthy(x) == ~Falsy(x.outcome)
        kept == SelectSeq(sc.actions, truthy)
    IN JoinOutcomes([i \in DOMAIN kept |-> kept[i].outcome])

\* Bot._has_majority_replied: num_replies > num_members // 2
MajorityReplied_half(num_replies, members) == num_replies >= members \div 2

MajorityReplied(num_replies, members) == num_replies > members \div 2

\* A slot without a coroutine.
IdleHandler ==
    [status |-> "idle", kind |-> None, pc |-> None, user |-> 0, words |-> << >>,
     text |-> None, target |-> 0, sid |-> 0, before |-> << >>, replies |-> 0, members |-> 0, outcomes |-> None,
     trace |-> << >>]

\* The coroutine of a handler starts.  With handlers that run one at a time
\* `before` is chat_data as the handler finds it.
Begin(kind, u, words, text, target) ==
    [IdleHandler EXCEPT !.status = "running", !.kind = kind, !.user = u,
                        !.words = words, !.text = text, !.target = target,
                        !.before = IF concurrent_updates THEN << >> ELSE scene]

\* What is kept of a coroutine that is over: everything when handlers run
\* one at a time, else who it was and what it did.
Over_(h, status) ==
    IF concurrent_updates
    THEN [IdleHandler EXCEPT !.status = status, !.kind = h.kind, !.user = h.user,
                             !.sid = h.sid, !.trace = h.trace]
    ELSE [h EXCEPT !.status = status, !.pc = None]

\* The coroutine does `events` and returns.
Done(h, events) == Over_([h EXCEPT !.trace = @ \o events], "done")

\* The coroutine does `events` and an exception leaves it; the Application
\* catches and logs it (main.py registers no error handler).
Failed(h, events) == Over_([h EXCEPT !.trace = @ \o events], "failed")

\* The coroutine does `events` and suspends at `pc`.
Suspend(h, pc_, events) == [h EXCEPT !.pc = pc_, !.trace = @ \o events]

Running(k) == handlers[k].status = "running"

\* The Application takes the next update of the chat: with
\* concurrent_updates off (the default, main.py) only when the handler of the
\* previous update is over.
Dispatch(k) ==
    /\ updates < MaxUpdates
    /\ ~Running(k)
    /\ \A j \in Slots : j < k => Running(j)
    /\ concurrent_updates \/ \A j \in Slots : ~Running(j)
    /\ updates' = updates + 1

\* The Scene with message id sid is the one in chat_data.
Stored(sid) == scene # << >> /\ scene[1].message_id = sid

\* The Scene object a handler got from Bot._get_scene and keeps in its local
\* `scene`: the stored one, or one that was deleted or replaced since.
LocalScene(sid) ==
    IF Stored(sid) THEN scene[1] ELSE CHOOSE d \in detached : d.message_id = sid

\* The Scene objects of ds that a handler suspended in handle_reply still holds.
Held(ds, hs) ==
    {d \in ds : \E k \in Slots : /\ hs[k].status = "running"
                                 /\ hs[k].pc \in {"ack", "add_action"}
                                 /\ hs[k].sid = d.message_id}

\* A Scene that leaves chat_data in this step lives on while a handler holds it.
Detach ==
    detached' = Held(detached \cup
                     (IF scene # << >> /\ ~(scene' # << >> /\
                                            scene'[1].message_id = scene[1].message_id)
                      THEN {scene[1]} ELSE {}),
                     handlers')

InitSession ==
    /\ scene = << >>
    /\ detached = {}
    /\ next_message_id = 1
    /\ handlers = [k \in Slots |-> IdleHandler]
    /\ updates = 0

\* ------------------------------------------------------------- the runs
\* def __init__(self, original, num_candidates, generator, selector, refiner,
\* visualizer, renderer): seven required parameters, no **kwargs.
InitParameters ==
    {"original", "num_candidates", "generator", "selector", "refiner", "visualizer",
     "renderer"}

\* The graphs the AI methods build: GeneratorGraph(num_candidates=..., inputs=...,
\* generator=..., selector=..., refiner=..., visualizer=..., renderer=...).
UseCases ==
    [create_scene |-> [num_candidates |-> 3, selector |-> "remote",
                       visualizer |-> "remote", renderer |-> "remote"],
     add_action |-> [num_candidates |-> 1, selector |-> "trivial",
                     visualizer |-> "noop", renderer |-> "noop"],
     end_scene |-> [num_candidates |-> 3, selector |-> "remote",
                    visualizer |-> "noop", renderer |-> "noop"]]

\* The keyword arguments of the constructor call of each caller.
Keywords(c) ==
    IF c \in DOMAIN UseCases
    THEN {"num_candidates", "inputs", "generator", "selector", "refiner", "visualizer",
          "renderer"}
    ELSE InitParameters

\* The seed of the generation in the constructor call: inputs=[description],
\* inputs=[scene, outcomes] and inputs=[scene, outcomes, name, action] in the
\* AI methods, original=... in a call through the class's own signature.
Seed(c) ==
    CASE c = "create_scene" -> <<"description">>
      [] c = "end_scene" -> <<"scene", "outcomes">>
      [] c = "add_action" -> <<"scene", "outcomes", "name", "action">>
      [] OTHER -> "original"

\* Python binds a call made with keywords only when every keyword names a
\* parameter and every parameter without a default is given.
BindsArguments(keywords) == keywords = InitParameters

\* A run of a graph built through the class's own signature, with any of the
\* stage function sets and any num_candidates.
InitDirect ==
    /\ caller = "direct"
    /\ num_candidates \in 1..MaxCandidates
    /\ \E f \in StageFunctions :
          /\ selector = f.selector
          /\ visualizer = f.visualizer
          /\ renderer = f.renderer

\* A call of AI.create_scene, AI.add_action or AI.end_scene.
InitUseCase ==
    /\ caller \in DOMAIN UseCases
    /\ num_candidates = UseCases[caller].num_candidates
    /\ selector = UseCases[caller].selector
    /\ visualizer = UseCases[caller].visualizer
    /\ renderer = UseCases[caller].renderer

\* No run has started.
InitRun ==
    /\ pc = "call"
    /\ first_run = << >>
    /\ tasks = << >>
    /\ rw = IdleRetry
    /\ candidates = << >>
    /\ winner_index = << >>
    /\ refined = None
    /\ visualized = None
    /\ image_url = None
    /\ invoked = [n \in Node |-> 0]
    /\ args = [n \in Node |-> Unset]
    /\ outs = [n \in Node |-> << >>]
    /\ final_state = << >>
    /\ raised = None

Init ==
    /\ InitDirect \/ InitUseCase
    /\ standin = << >>
    /\ InitRun
    /\ InitSession
    /\ concurrent_updates = FALSE
    /\ member_count = << >>

\* The edges added in __init__: GENERATE_CANDIDATE -> SELECT_WINNER -> REFINE
\* -> VISUALIZE -> RENDER -> END.
Successor_swapped(node) ==
    CASE node = GENERATE_CANDIDATE -> SELECT_WINNER
      [] node = SELECT_WINNER -> VISUALIZE
      [] node = VISUALIZE -> REFINE
      [] node = REFINE -> RENDER
      [] node = RENDER -> "end"

Successor(node) ==
    CASE node = GENERATE_CANDIDATE -> SELECT_WINNER
      [] node = SELECT_WINNER -> REFINE
      [] node = REFINE -> VISUALIZE
      [] node = VISUALIZE -> RENDER
      [] node = RENDER -> "end"

\* graph = GeneratorGraph(...): the call raises TypeError when the keywords do
\* not bind to __init__'s parameters, and the caller has no handler for it.
Construct ==
    /\ pc = "call"
    /\ IF BindsArguments(Keywords(caller))
       THEN pc' = "start" /\ UNCHANGED raised
       ELSE pc' = "raised" /\ raised' = "TypeError"
    /\ UNCHANGED <<config, session, first_run, tasks, rw, state, invoked, args, outs, final_state>>

\* invoke(): graph.ainvoke(GeneratorState(candidates=[])) runs START, whose
\* conditional edge broadcast_candidates emits the Send list.
Invoke ==
    /\ pc = "start"
    /\ tasks' = broadcast_candidates(num_candidates)
    /\ pc' = GENERATE_CANDIDATE
    /\ UNCHANGED <<config, session, first_run, rw, state, invoked, args, outs, final_state, raised>>

\* A node function is entered with `arg` for its stage function.
Enter(node, arg) ==
    /\ invoked' = [invoked EXCEPT ![node] = @ + 1]
    /\ args' = [args EXCEPT ![node] = arg]

\* generate_candidate of task i: self.generator(state.original), where each
\* underlying call of generate_text's make_request() is a step.  The first
\* call of a task is the entry of the node function.
\* A task whose retries are exhausted raises, which aborts the run; the threads
\* of the sibling tasks that already started keep going until they finish.
GenerateCandidate(i) ==
    /\ i \in DOMAIN tasks
    /\ \/ pc = GENERATE_CANDIDATE /\ tasks[i].status \in {"idle", "running"}
       \/ pc = "raised" /\ tasks[i].status = "running"
    /\ \E outcome \in Calls(tasks[i], GENERATE_CANDIDATE, None,
                           Cardinality({j \in DOMAIN tasks : tasks[j].status = "returned"}),
                           Texts) :
          LET r == RetryStep(tasks[i], outcome) IN
          /\ tasks' = [tasks EXCEPT ![i] = r]
          /\ IF NodeOutcome(r)[1] = "raise" /\ pc = GENERATE_CANDIDATE
             THEN pc' = "raised" /\ raised' = NodeOutcome(r)[2]
             ELSE UNCHANGED <<pc, raised>>
    /\ IF tasks[i].status = "idle"
       THEN Enter(GENERATE_CANDIDATE, Seed(caller))
       ELSE UNCHANGED <<invoked, args>>
    /\ UNCHANGED <<config, session, first_run, rw, state, outs, final_state>>

\* End of the fan-out superstep: the writes are reduced into the state and
\* SELECT_WINNER is scheduled.
Join ==
    /\ pc = GENERATE_CANDIDATE
    /\ tasks # << >>
    /\ JoinReady(tasks)
    /\ candidates' = ReduceAdd(candidates, tasks, 1)
    /\ outs' = [outs EXCEPT ![GENERATE_CANDIDATE] =
                   [i \in DOMAIN tasks |-> tasks[i].result]]
    /\ tasks' = << >>
    /\ pc' = Successor(GENERATE_CANDIDATE)
    /\ UNCHANGED <<config, session, first_run, rw, winner_index, refined, visualized, image_url,
                   invoked, args, final_state, raised>>

StartRemote(node) == rw' = [IdleRetry EXCEPT !.status = "running", !.node = node]

\* select_winner, up to the call of the selector.
SelectWinnerEnter ==
    /\ pc = SELECT_WINNER
    /\ rw.status # "running"
    /\ Enter(SELECT_WINNER, join_candidates(candidates))
    /\ IF selector = "trivial"
       THEN /\ winner_index' = <<0>>
            /\ outs' = [outs EXCEPT ![SELECT_WINNER] = <<0>>]
            /\ pc' = Successor(SELECT_WINNER)
            /\ rw' = IdleRetry
       ELSE /\ StartRemote(SELECT_WINNER)
            /\ UNCHANGED <<winner_index, outs, pc>>
    /\ UNCHANGED <<config, session, first_run, tasks, candidates, refined, visualized, image_url,
                   final_state, raised>>

\* select_scene / select_ending: one underlying call of generate_text.
SelectWinnerCall ==
    /\ pc = SELECT_WINNER
    /\ rw.status = "running"
    /\ \E outcome \in Calls(rw, SELECT_WINNER, args[SELECT_WINNER], 0, Indexes) :
          /\ rw' = RetryStep(rw, outcome)
          /\ CASE NodeOutcome(rw')[1] = "write" ->
                    /\ winner_index' = NodeOutcome(rw')[2]
                    /\ outs' = [outs EXCEPT ![SELECT_WINNER] = NodeOutcome(rw')[2]]
                    /\ pc' = Successor(SELECT_WINNER)
                    /\ UNCHANGED raised
               [] NodeOutcome(rw')[1] = "raise" ->
                    /\ pc' = "raised"
                    /\ raised' = NodeOutcome(rw')[2]
                    /\ UNCHANGED <<winner_index, outs>>
               [] OTHER -> UNCHANGED <<winner_index, outs, pc, raised>>
    /\ UNCHANGED <<config, session, first_run, tasks, candidates, refined, visualized, image_url,
                   invoked, args, final_state>>

\* refine, up to the call of the refiner.
RefineEnter ==
    /\ pc = REFINE
    /\ rw.status # "running"
    /\ IF IndexInRange(candidates, winner_index[1])
       THEN /\ Enter(REFINE, GetItem(candidates, winner_index[1]))
            /\ StartRemote(REFINE)
            /\ UNCHANGED <<pc, raised>>
       ELSE /\ invoked' = [invoked EXCEPT ![REFINE] = @ + 1]
            /\ pc' = "raised"
            /\ raised' = "IndexError"
            /\ UNCHANGED <<args, rw>>
    /\ UNCHANGED <<config, session, first_run, tasks, state, outs, final_state>>

\* refine_scene / refine_outcome / refine_ending: one underlying call.
RefineCall ==
    /\ pc = REFINE
    /\ rw.status = "running"
    /\ \E outcome \in Calls(rw, REFINE, args[REFINE], 0, Texts) :
          /\ rw' = RetryStep(rw, outcome)
          /\ CASE NodeOutcome(rw')[1] = "write" ->
                    /\ refined' = NodeOutcome(rw')[2][1]
                    /\ outs' = [outs EXCEPT ![REFINE] = NodeOutcome(rw')[2]]
                    /\ pc' = Successor(REFINE)
                    /\ UNCHANGED raised
               [] NodeOutcome(rw')[1] = "raise" ->
                    /\ pc' = "raised"
                    /\ raised' = NodeOutcome(rw')[2]
                    /\ UNCHANGED <<refined, outs>>
               [] OTHER -> UNCHANGED <<refined, outs, pc, raised>>
    /\ UNCHANGED <<config, session, first_run, tasks, candidates, winner_index, visualized, image_url,
                   invoked, args, final_state>>

\* visualize, up to the call of the visualizer.
VisualizeEnter_clears ==
    /\ pc = VISUALIZE
    /\ rw.status # "running"
    /\ Enter(VISUALIZE, refined)
    /\ refined' = None
    /\ IF visualizer = "noop"
       THEN /\ visualized' = None
            /\ outs' = [outs EXCEPT ![VISUALIZE] = <<None>>]
            /\ pc' = Successor(VISUALIZE)
            /\ rw' = IdleRetry
       ELSE /\ StartRemote(VISUALIZE)
            /\ UNCHANGED <<visualized, outs, pc>>
    /\ UNCHANGED <<config, session, first_run, tasks, candidates, winner_index, image_url,
                   final_state, raised>>

VisualizeEnter ==
    /\ pc = VISUALIZE
    /\ rw.status # "running"
    /\ Enter(VISUALIZE, refined)
    /\ IF visualizer = "noop"
       THEN /\ visualized' = None
            /\ outs' = [outs EXCEPT ![VISUALIZE] = <<None>>]
            /\ pc' = Successor(VISUALIZE)
            /\ rw' = IdleRetry
       ELSE /\ StartRemote(VISUALIZE)
            /\ UNCHANGED <<visualized, outs, pc>>
    /\ UNCHANGED <<config, session, first_run, tasks, candidates, winner_index, refined, image_url,
                   final_state, raised>>

\* visualize_scene: one underlying call of generate_text.
VisualizeCall ==
    /\ pc = VISUALIZE
    /\ rw.status = "running"
    /\ \E outcome \in Outcomes(rw, Texts) :
          /\ rw' = RetryStep(rw, outcome)
          /\ CASE NodeOutcome(rw')[1] = "write" ->
                    /\ visualized' = NodeOutcome(rw')[2][1]
                    /\ outs' = [outs EXCEPT ![VISUALIZE] = NodeOutcome(rw')[2]]
                    /\ pc' = Successor(VISUALIZE)
                    /\ UNCHANGED raised
               [] NodeOutcome(rw')[1] = "raise" ->
                    /\ pc' = "raised"
                    /\ raised' = NodeOutcome(rw')[2]
                    /\ UNCHANGED <<visualized, outs>>
               [] OTHER -> UNCHANGED <<visualized, outs, pc, raised>>
    /\ UNCHANGED <<config, session, first_run, tasks, candidates, winner_index, refined, image_url,
                   invoked, args, final_state>>

\* render, up to the call of the renderer.
RenderEnter ==
    /\ pc = RENDER
    /\ rw.status # "running"
    /\ Enter(RENDER, visualized)
    /\ IF renderer = "noop"
       THEN /\ image_url' = None
            /\ outs' = [outs EXCEPT ![RENDER] = <<None>>]
            /\ pc' = Successor(RENDER)
            /\ rw' = IdleRetry
       ELSE /\ StartRemote(RENDER)
            /\ UNCHANGED <<image_url, outs, pc>>
    /\ UNCHANGED <<config, session, first_run, tasks, candidates, winner_index, refined, visualized,
                   final_state, raised>>

\* render_scene: one underlying call of generate_image's make_request().
RenderCall ==
    /\ pc = RENDER
    /\ rw.status = "running"
    /\ \E outcome \in Outcomes(rw, Urls) :
          /\ rw' = RetryStep(rw, outcome)
          /\ CASE NodeOutcome(rw')[1] = "write" ->
                    /\ image_url' = NodeOutcome(rw')[2][1]
                    /\ outs' = [outs EXCEPT ![RENDER] = NodeOutcome(rw')[2]]
                    /\ pc' = Successor(RENDER)
                    /\ UNCHANGED raised
               [] NodeOutcome(rw')[1] = "raise" ->
                    /\ pc' = "raised"
                    /\ raised' = NodeOutcome(rw')[2]
                    /\ UNCHANGED <<image_url, outs>>
               [] OTHER -> UNCHANGED <<image_url, outs, pc, raised>>
    /\ UNCHANGED <<config, session, first_run, tasks, candidates, winner_index, refined, visualized,
                   invoked, args, final_state>>

\* invoke() returns GeneratorState(**final_dict) once RENDER reached END.
Return ==
    /\ pc = "end"
    /\ final_state' = <<GeneratorState>>
    /\ pc' = "returned"
    /\ UNCHANGED <<config, session, first_run, tasks, rw, state, invoked, args, outs, raised>>

Next ==
    \/ Construct
    \/ Invoke
    \/ \E i \in DOMAIN tasks : GenerateCandidate(i)
    \/ Join
    \/ SelectWinnerEnter
    \/ SelectWinnerCall
    \/ RefineEnter
    \/ RefineCall
    \/ VisualizeEnter
    \/ VisualizeCall
    \/ RenderEnter
    \/ RenderCall
    \/ Return

Spec == Init /\ [][Next]_vars

\* Every underlying remote call returns or raises in the end, and langgraph
\* and the retry layer go on whenever they can: a step that is possible is
\* taken sooner or later.
SpecLive == Init /\ [][Next]_vars /\ WF_vars(Next)

\* The pure stand-ins for generator, selector and refiner.
StandIns ==
    [generator : Texts, selector : Indexes, refiner : [Texts -> Texts]]

\* A graph built through the class's own signature with stand-ins for the
\* generator, the selector and the refiner, and no-op visualizer and renderer.
InitDet ==
    /\ caller = "direct"
    /\ num_candidates \in 1..MaxCandidates
    /\ selector = "remote"
    /\ visualizer = "noop"
    /\ renderer = "noop"
    /\ standin \in {<<s>> : s \in StandIns}
    /\ InitRun
    /\ InitSession
    /\ concurrent_updates = FALSE
    /\ member_count = << >>

\* The outcome of a call of invoke(): the returned state or the exception.
RunOutcome == [final_state |-> final_state, raised |-> raised]

\* invoke() is called a second time on the same graph: ainvoke starts again
\* from GeneratorState(candidates=[]).
InvokeAgain ==
    /\ pc \in {"returned", "raised"}
    /\ first_run = << >>
    /\ \A i \in DOMAIN tasks : tasks[i].status # "running"
    /\ first_run' = <<RunOutcome>>
    /\ pc' = "start"
    /\ tasks' = << >>
    /\ rw' = IdleRetry
    /\ candidates' = << >>
    /\ winner_index' = << >>
    /\ refined' = None
    /\ visualized' = None
    /\ image_url' = None
    /\ invoked' = [n \in Node |-> 0]
    /\ args' = [n \in Node |-> Unset]
    /\ outs' = [n \in Node |-> << >>]
    /\ final_state' = << >>
    /\ raised' = None
    /\ UNCHANGED <<config, session>>

NextDet ==
    \/ Construct
    \/ Invoke
    \/ \E i \in DOMAIN tasks : GenerateCandidate(i)
    \/ Join
    \/ SelectWinnerEnter
    \/ SelectWinnerCall
    \/ RefineEnter
    \/ RefineCall
    \/ VisualizeEnter
    \/ RenderEnter
    \/ Return
    \/ InvokeAgain

SpecDet == InitDet /\ [][NextDet]_vars

\* ------------------------------------------------------------ Bot handlers
\* handle_start, up to `await self.ai.create_scene(...)`.
HandleStart(k, words) ==
    /\ Dispatch(k)
    /\ LET h == Begin("start", 0, words, None, 0) IN
       IF NoArgs(words)
       THEN handlers' = [handlers EXCEPT ![k] = Done(h, <<"warn_missing">>)]
       ELSE IF _is_scene_active
       THEN handlers' = [handlers EXCEPT ![k] = Done(h, <<"warn_active">>)]
       ELSE handlers' = [handlers EXCEPT ![k] =
                            Suspend(h, "create_scene", <<"ack", "create_scene">>)]
    /\ UNCHANGED <<pipeline, scene, detached, next_message_id, concurrent_updates, member_count>>

\* handle_start, from the return of ai.create_scene: the photo is posted and
\* the Scene stored under SCENE_KEY.
CreateSceneReturns(k) ==
    /\ Running(k)
    /\ handlers[k].pc = "create_scene"
    /\ \E result \in AIResults :
          IF result[1] = "exc"
          THEN /\ handlers' = [handlers EXCEPT ![k] = Failed(@, <<"raise">>)]
               /\ UNCHANGED <<scene, next_message_id>>
          ELSE IF Falsy(result[2])
          THEN /\ handlers' = [handlers EXCEPT ![k] = Done(@, <<"error_create">>)]
               /\ UNCHANGED <<scene, next_message_id>>
          ELSE /\ handlers' = [handlers EXCEPT ![k] = Done(@, <<"photo", "store">>)]
               /\ scene' = <<Scene(next_message_id, result[2], << >>)>>
               /\ next_message_id' = next_message_id + 1
    /\ Detach
    /\ UNCHANGED <<pipeline, concurrent_updates, member_count, updates>>

\* handle_reset
HandleReset(k) ==
    /\ Dispatch(k)
    /\ handlers' = [handlers EXCEPT ![k] =
                        Done(Begin("reset", 0, << >>, None, 0), <<"reaction", "delete">>)]
    /\ scene' = _delete_scene(scene)
    /\ Detach
    /\ UNCHANGED <<pipeline, next_message_id, concurrent_updates, member_count>>

\* handle_reply, up to the first await after the reservation.
HandleReply(k, u, text, target) ==
    /\ Dispatch(k)
    /\ LET h == Begin("reply", u, << >>, text, target) IN
       IF scene = << >>
       THEN /\ handlers' = [handlers EXCEPT ![k] = Done(h, << >>)]
            /\ UNCHANGED scene
       ELSE IF ~RepliesToScene(target, scene[1])
       THEN /\ handlers' = [handlers EXCEPT ![k] = Done(h, << >>)]
            /\ UNCHANGED scene
       ELSE IF InActions(scene[1].actions, u)
       THEN /\ handlers' = [handlers EXCEPT ![k] = Done(h, <<"warn_duplicate">>)]
            /\ UNCHANGED scene
       ELSE /\ scene' = <<[scene[1] EXCEPT !.actions = Reserve(@, u, text)]>>
            /\ handlers' = [handlers EXCEPT ![k] =
                                Suspend([h EXCEPT !.sid = scene[1].message_id],
                                        "ack", <<"reserve", "ack">>)]
    /\ Detach
    /\ UNCHANGED <<pipeline, next_message_id, concurrent_updates, member_count>>

\* handle_reply: the call self.ai.add_action(scene.description,
\* scene.outcomes(), name, action), whose arguments are evaluated now.
CallAddAction(k) ==
    /\ Running(k)
    /\ handlers[k].pc = "ack"
    /\ handlers' = [handlers EXCEPT ![k] =
                        Suspend([@ EXCEPT !.outcomes =
                                              Scene_outcomes(LocalScene(handlers[k].sid))],
                                "add_action", <<"add_action">>)]
    /\ UNCHANGED <<pipeline, scene, detached, next_message_id, concurrent_updates, member_count,
                   updates>>

\* The handler's local Scene object becomes `new`: in chat_data when it is
\* the stored one, else only for the handlers that still hold it.
WriteLocal(sid, new) ==
    IF Stored(sid)
    THEN /\ scene' = <<new>>
         /\ Detach
    ELSE /\ scene' = scene
         /\ detached' = Held((detached \ {LocalScene(sid)}) \cup {new}, handlers')

\* handle_reply, from the return of ai.add_action to the outcome's post.
AddActionReturns(k) ==
    /\ Running(k)
    /\ handlers[k].pc = "add_action"
    /\ \E result \in AIResults :
          LET h == handlers[k]
              local == LocalScene(h.sid)
          IN
          IF result[1] = "exc"
          THEN /\ handlers' = [handlers EXCEPT ![k] = Failed(@, <<"raise">>)]
               /\ UNCHANGED scene
               /\ Detach
          ELSE IF Falsy(result[2])
          THEN /\ handlers' = [handlers EXCEPT ![k] =
                                   Done(@, <<"error_action", "unreserve">>)]
               /\ WriteLocal(h.sid, [local EXCEPT !.actions = DelAction(@, h.user)])
          ELSE /\ handlers' = [handlers EXCEPT ![k] = Suspend(@, "majority", <<"outcome">>)]
               /\ WriteLocal(h.sid, [local EXCEPT !.actions =
                                                      SetOutcome(@, h.user, result[2])])
    /\ UNCHANGED <<pipeline, next_message_id, concurrent_updates, member_count, updates>>

\* handle_end, up to `await self._ack_message(...)`, as run by coroutine h.
HandleEndBody(h) ==
    IF ~_is_scene_active
    THEN Done(h, <<"handle_end", "warn_no_scene">>)
    ELSE Suspend(h, "end_ack", <<"handle_end", "ack">>)

\* handle_reply: _has_majority_replied reads len(scene.actions), 0 without a
\* scene, and awaits chat.get_member_count().
CountReplies(k) ==
    /\ Running(k)
    /\ handlers[k].pc = "majority"
    /\ LET num_replies == IF scene = << >> THEN 0 ELSE Len(scene[1].actions) IN
       handlers' = [handlers EXCEPT ![k] =
                       Suspend([@ EXCEPT !.replies = num_replies], "members", << >>)]
    /\ UNCHANGED <<pipeline, scene, detached, next_message_id, concurrent_updates, member_count,
                   updates>>

\* handle_reply: chat.get_member_count() answers num_members, and, when the
\* majority has replied, the call of handle_end.  The two counts stay on
\* record when handlers run one at a time.
HasMajorityReplied(k, num_members) ==
    /\ Running(k)
    /\ handlers[k].pc = "members"
    /\ member_count \in {<< >>, <<num_members>>}
    /\ LET h == IF concurrent_updates
                THEN [handlers[k] EXCEPT !.replies = 0]
                ELSE [handlers[k] EXCEPT !.members = num_members]
       IN handlers' = [handlers EXCEPT ![k] =
                          IF MajorityReplied(handlers[k].replies, num_members)
                          THEN HandleEndBody(h)
                          ELSE Done(h, << >>)]
    /\ UNCHANGED <<pipeline, scene, detached, next_message_id, concurrent_updates, member_count,
                   updates>>

\* handle_end after the acknowledgement: scene = Bot._get_scene(context) and
\* the call self.ai.end_scene(scene.description, scene.outcomes()), which
\* raises AttributeError when the scene is gone by now.
CallEndScene(k) ==
    /\ Running(k)
    /\ handlers[k].pc = "end_ack"
    /\ handlers' = [handlers EXCEPT ![k] =
                        IF scene = << >>
                        THEN Failed(@, <<"raise">>)
                        ELSE Suspend([@ EXCEPT !.outcomes = Scene_outcomes(scene[1]),
                                               !.sid = scene[1].message_id],
                                     "end_scene", <<"end_scene">>)]
    /\ UNCHANGED <<pipeline, scene, detached, next_message_id, concurrent_updates, member_count,
                   updates>>

\* handle_end for an /end command.
HandleEnd(k) ==
    /\ Dispatch(k)
    /\ handlers' = [handlers EXCEPT ![k] = HandleEndBody(Begin("end", 0, << >>, None, 0))]
    /\ UNCHANGED <<pipeline, scene, detached, next_message_id, concurrent_updates, member_count>>

\* handle_end, from the return of ai.end_scene: the summary is posted and the
\* scene deleted.
EndSceneResult(k, result) ==
    /\ Running(k)
    /\ handlers[k].pc = "end_scene"
    /\ IF result[1] = "exc"
       THEN /\ handlers' = [handlers EXCEPT ![k] = Failed(@, <<"raise">>)]
            /\ UNCHANGED scene
       ELSE IF Falsy(result[2])
       THEN /\ handlers' = [handlers EXCEPT ![k] = Done(@, <<"error_end">>)]
            /\ UNCHANGED scene
       ELSE /\ handlers' = [handlers EXCEPT ![k] = Done(@, <<"summary", "delete">>)]
            /\ scene' = _delete_scene(scene)
    /\ Detach
    /\ UNCHANGED <<pipeline, next_message_id, concurrent_updates, member_count, updates>>

\* ai.end_scene returns anything or raises.
EndSceneReturns(k) == \E result \in AIResults : EndSceneResult(k, result)

\* ai.end_scene returns a summary.
EndSceneSucceeds(k) ==
    \E result \in {r \in AIResults : r[1] = "ok" /\ ~Falsy(r[2])} : EndSceneResult(k, result)

\* A Bot whose AI is not looked into: its GeneratorGraph variables stay put.
InitAI ==
    /\ InitRun
    /\ caller = "direct"
    /\ standin = << >>
    /\ num_candidates = 1
    /\ selector = "trivial"
    /\ visualizer = "noop"
    /\ renderer = "noop"

NextBot ==
    \/ \E k \in Slots, words \in StartArgs : HandleStart(k, words)
    \/ \E k \in Slots : CreateSceneReturns(k)
    \/ \E k \in Slots : HandleReset(k)
    \/ \E k \in Slots, u \in Users, text \in MessageTexts,
          target \in 0..(next_message_id - 1) : HandleReply(k, u, text, target)
    \/ \E k \in Slots : CallAddAction(k)
    \/ \E k \in Slots : AddActionReturns(k)
    \/ \E k \in Slots : CountReplies(k)
    \/ \E k \in Slots, num_members \in 1..MaxMembers : HasMajorityReplied(k, num_members)
    \/ \E k \in Slots : CallEndScene(k)
    \/ \E k \in Slots : HandleEnd(k)
    \/ \E k \in Slots : EndSceneReturns(k)

\* The chat of the Application main() builds: concurrent_updates is off.
InitBot ==
    /\ InitSession
    /\ InitAI
    /\ concurrent_updates = FALSE
    /\ member_count = << >>

SpecBot == InitBot /\ [][NextBot]_vars

\* The chat of an Application built with concurrent_updates on: the handler of
\* an update may start while another one is suspended at an await.
InitOverlap ==
    /\ InitSession
    /\ InitAI
    /\ concurrent_updates = TRUE
    /\ member_count = << >>

\* The users send /start commands and replies.
NextOverlap ==
    \/ \E k \in Slots, words \in StartArgs : HandleStart(k, words)
    \/ \E k \in Slots : CreateSceneReturns(k)
    \/ \E k \in Slots, u \in Users, text \in MessageTexts,
          target \in 0..(next_message_id - 1) : HandleReply(k, u, text, target)
    \/ \E k \in Slots : CallAddAction(k)
    \/ \E k \in Slots : AddActionReturns(k)
    \/ \E k \in Slots : CountReplies(k)
    \/ \E k \in Slots, num_members \in 1..MaxMembers : HasMajorityReplied(k, num_members)
    \/ \E k \in Slots : CallEndScene(k)
    \/ \E k \in Slots : EndSceneReturns(k)

SpecOverlap == InitOverlap /\ [][NextOverlap]_vars

\* A chat whose member count stays m, with handlers run one at a time.
InitMembers ==
    /\ InitSession
    /\ InitAI
    /\ concurrent_updates = FALSE
    /\ member_count \in {<<m>> : m \in 1..MaxMembers}

\* The commands and replies of that chat, with an ending pipeline that never
\* fails.
NextMembers ==
    \/ \E k \in Slots, words \in StartArgs : HandleStart(k, words)
    \/ \E k \in Slots : CreateSceneReturns(k)
    \/ \E k \in Slots : HandleReset(k)
    \/ \E k \in Slots, u \in Users, text \in MessageTexts,
          target \in 0..(next_message_id - 1) : HandleReply(k, u, text, target)
    \/ \E k \in Slots : CallAddAction(k)
    \/ \E k \in Slots : AddActionReturns(k)
    \/ \E k \in Slots : CountReplies(k)
    \/ \E k \in Slots, num_members \in 1..MaxMembers : HasMajorityReplied(k, num_members)
    \/ \E k \in Slots : HandleEnd(k)
    \/ \E k \in Slots : CallEndScene(k)
    \/ \E k \in Slots : EndSceneSucceeds(k)

SpecMembers == InitMembers /\ [][NextMembers]_vars

TypeOK ==
    /\ num_candidates \in 1..MaxCandidates
    /\ pc \in Node \cup {"call", "start", "end", "returned", "raised"}
    /\ Len(candidates) <= num_candidates
    /\ Len(winner_index) <= 1
    /\ Len(final_state) <= 1

\* ------------------------------------------------------------------ claims
PostJoin == {SELECT_WINNER, REFINE, VISUALIZE, RENDER}

\* The run is past the join: a post-join node is scheduled or has been entered.
PastJoin ==
    \/ pc \in PostJoin \cup {"end", "returned"}
    \/ \E n \in PostJoin : invoked[n] > 0

\* C1: a run never enters the generator more than num_candidates times, and
\* once the selector is scheduled or has been called the generator has been
\* entered exactly num_candidates times and candidates holds exactly
\* num_candidates entries.
C1_GeneratorInvokedNTimes ==
    /\ invoked[GENERATE_CANDIDATE] <= num_candidates
    /\ PastJoin =>
          /\ invoked[GENERATE_CANDIDATE] = num_candidates
          /\ Len(candidates) = num_candidates

C1_Witness ==
    /\ num_candidates = 3
    /\ pc = SELECT_WINNER
    /\ invoked[SELECT_WINNER] = 1
    /\ rw.status = "running"
    /\ invoked[GENERATE_CANDIDATE] = 3

\* C2: the selector is entered at most once; the step that schedules it is
\* taken only when every one of the num_candidates generator tasks has
\* returned; and no post-join node ever sees fewer than num_candidates
\* candidates.
C2_JoinIsBarrier ==
    /\ [](invoked[SELECT_WINNER] <= 1)
    /\ [][(pc # SELECT_WINNER /\ pc' = SELECT_WINNER) =>
            /\ DOMAIN tasks = 1..num_candidates
            /\ \A i \in DOMAIN tasks : tasks[i].status = "returned"]_vars
    /\ [](\A n \in PostJoin :
            (pc = n \/ invoked[n] > 0) => Len(candidates) >= num_candidates)

C2_Witness ==
    /\ num_candidates = 3
    /\ pc = "returned"
    /\ invoked[SELECT_WINNER] = 1
    /\ selector = "remote"
    /\ Len(final_state[1].candidates) = 3

\* C3: at the join candidates[i] is what the i-th generator task (Send index
\* i) returned, whatever the order in which the tasks finished.
C3_CandidatesInBranchOrder ==
    PastJoin =>
        /\ DOMAIN outs[GENERATE_CANDIDATE] = 1..num_candidates
        /\ \A i \in 1..num_candidates :
              /\ i \in DOMAIN candidates
              /\ outs[GENERATE_CANDIDATE][i] = <<candidates[i]>>

C3_Witness ==
    /\ pc = SELECT_WINNER
    /\ num_candidates = 3
    /\ outs[GENERATE_CANDIDATE] = << <<"T2">>, <<"T1">>, <<"T2">> >>
    /\ candidates = <<"T2", "T1", "T2">>

\* Every retry-wrapped remote invocation of the run: those of the generator
\* tasks and that of the sequential node reached last.
Invocations == {tasks[i] : i \in DOMAIN tasks} \cup {rw}

\* Every underlying call of the invocation failed and no attempt is left.
Exhausted(r) == r.calls >= MaxAttempts /\ r.fails = r.calls

Later(n) ==
    CASE n = GENERATE_CANDIDATE -> {SELECT_WINNER, REFINE, VISUALIZE, RENDER}
      [] n = SELECT_WINNER -> {REFINE, VISUALIZE, RENDER}
      [] n = REFINE -> {VISUALIZE, RENDER}
      [] n = VISUALIZE -> {RENDER}
      [] OTHER -> {}

\* C4: when the remote invocation of a generator task, the refiner, the
\* visualizer or the renderer has failed on every attempt, the run has raised
\* to invoke()'s caller, no state is returned and no later node is entered;
\* the renderer is never entered after a text invocation was exhausted.
C4_ExhaustedStageAbortsRun ==
    \A r \in Invocations :
        (Exhausted(r) /\ r.node \in {GENERATE_CANDIDATE, REFINE, VISUALIZE, RENDER}) =>
            /\ pc = "raised"
            /\ raised # None
            /\ final_state = << >>
            /\ \A n \in Later(r.node) : invoked[n] = 0 /\ args[n] = Unset
            /\ r.node # RENDER => invoked[RENDER] = 0 /\ image_url = None

C4_Witness ==
    /\ num_candidates = 3
    /\ pc = "raised"
    /\ rw.node = VISUALIZE
    /\ Exhausted(rw)
    /\ refined \in Texts
    /\ invoked[RENDER] = 0

\* C5 as stated: when the selector's remote invocation is exhausted the run
\* goes on with winner_index = 0 and REFINE scheduled.
C5_SelectorFailureDefaultsToZero ==
    (Exhausted(rw) /\ rw.node = SELECT_WINNER) =>
        /\ pc # "raised"
        /\ winner_index = <<0>>

\* C5 amended: when the selector's remote invocation is exhausted the run
\* raises the final exception to invoke()'s caller like any other stage:
\* winner_index stays unset, REFINE is never entered and no state is returned.
C5_SelectorFailureAbortsRun ==
    (Exhausted(rw) /\ rw.node = SELECT_WINNER) =>
        /\ pc = "raised"
        /\ raised = rw.last[2]
        /\ winner_index = << >>
        /\ invoked[REFINE] = 0
        /\ final_state = << >>

C5_Witness ==
    /\ selector = "remote"
    /\ num_candidates = 3
    /\ rw.node = SELECT_WINNER
    /\ rw.calls = MaxAttempts
    /\ rw.fails = MaxAttempts
    /\ pc = "raised"
    /\ Len(candidates) = 3

\* C6: once selection has run, winner_index lies in 0..num_candidates-1.
C6_WinnerIndexInRange ==
    winner_index # << >> =>
        winner_index[1] \in 0..(num_candidates - 1)

\* C7: in a run that returned, the refiner was called with
\* candidates[winner_index] (Python indexing: a negative index counts from the
\* end), the visualizer with the refiner's output and the renderer with the
\* visualizer's output, None when the visualizer is the no-op; the returned
\* refined, visualized and image_url are the three outputs.
C7_StagesChained ==
    final_state # << >> =>
        LET w == winner_index[1]
            n == Len(candidates)
        IN  /\ w >= 0 => w < n /\ args[REFINE] = candidates[w + 1]
            /\ w < 0 => n + w >= 0 /\ args[REFINE] = candidates[n + w + 1]
            /\ args[VISUALIZE] = outs[REFINE][1]
            /\ args[RENDER] = outs[VISUALIZE][1]
            /\ visualizer = "noop" => args[RENDER] = None
            /\ final_state[1].refined = outs[REFINE][1]
            /\ final_state[1].visualized = outs[VISUALIZE][1]
            /\ final_state[1].image_url = outs[RENDER][1]
            /\ final_state[1].winner_index = outs[SELECT_WINNER]
            /\ \A m \in PostJoin : invoked[m] = 1

C7_Witness ==
    /\ final_state # << >>
    /\ candidates = <<"T1", "T2", "T1">>
    /\ winner_index = <<1>>
    /\ args[REFINE] = "T2"
    /\ refined = "T1"
    /\ args[VISUALIZE] = "T1"
    /\ visualized = "T2"
    /\ args[RENDER] = "T2"
    /\ image_url \in Urls

\* C8: an invocation that returned made exactly one more underlying call than
\* it had failures, at most MaxAttempts of them, its last call is the one that
\* succeeded and its value is the value returned; an invocation that returned
\* makes no further call.
C8_RetryReturnsFirstSuccess ==
    /\ [](\A r \in Invocations :
            r.status = "returned" =>
                /\ r.calls = r.fails + 1
                /\ r.calls <= MaxAttempts
                /\ r.last[1] = "ok"
                /\ r.result = <<r.last[2]>>)
    /\ [][\A i \in DOMAIN tasks :
            (tasks[i].status = "returned" /\ i \in DOMAIN tasks') =>
                tasks'[i] = tasks[i]]_vars

C8_Witness ==
    \E i \in DOMAIN tasks :
        /\ tasks[i].status = "returned"
        /\ tasks[i].fails = 2
        /\ tasks[i].calls = 3
        /\ tasks[i].result = <<"T2">>

\* C9: when every attempt of an invocation failed, the invocation raised the
\* exception of its final attempt, not a wrapper and not a returned value, and
\* that exception is what invoke()'s caller observes.
C9_FinalExceptionObserved ==
    /\ \A r \in Invocations :
          Exhausted(r) =>
              /\ r.status = "raised"
              /\ r.last[1] = "exc"
              /\ r.exc = r.last[2]
              /\ r.exc = Exc(r.calls)
              /\ r.result = << >>
    /\ (\E r \in Invocations : Exhausted(r)) =>
          /\ pc = "raised"
          /\ \E r \in Invocations : Exhausted(r) /\ raised = r.last[2]

C9_Witness ==
    /\ pc = "raised"
    /\ rw.node = REFINE
    /\ rw.fails = MaxAttempts
    /\ rw.last = <<"exc", "E4">>
    /\ raised = "E4"

\* C10: no retry-wrapped invocation ever makes more than 4 underlying calls.
C10_AtMostFourCalls ==
    \A r \in Invocations : r.calls <= 4

C10_Witness ==
    \E i \in DOMAIN tasks :
        /\ tasks[i].calls = 4
        /\ tasks[i].fails = 3
        /\ tasks[i].status = "returned"

\* The call of the AI method is over: invoke() returned or something raised.
Finished == pc \in {"returned", "raised"}

\* The run was aborted by a remote invocation that exhausted its attempts, or
\* by an index of the selector model that candidates does not have.
RemoteFailure == raised \in {Exc(MaxAttempts), "IndexError"}

\* How many times the run called AI.generate_text and AI.generate_image.
TextInvocations ==
    invoked[GENERATE_CANDIDATE]
    + (IF selector = "remote" THEN invoked[SELECT_WINNER] ELSE 0)
    + (IF args[REFINE] # Unset THEN 1 ELSE 0)
    + (IF visualizer = "remote" THEN invoked[VISUALIZE] ELSE 0)

ImageInvocations == IF renderer = "remote" THEN invoked[RENDER] ELSE 0

\* C11: a call of AI.add_action or AI.end_scene that no remote failure aborted
\* returns a state with visualized = None and image_url = None and makes no
\* image call; AI.end_scene makes exactly 5 text calls, and AI.create_scene
\* exactly 6 text calls and 1 image call.
C11_NoOpStagesAndCallCounts ==
    (caller \in DOMAIN UseCases /\ Finished /\ ~RemoteFailure) =>
        /\ final_state # << >>
        /\ caller \in {"add_action", "end_scene"} =>
              /\ final_state[1].visualized = None
              /\ final_state[1].image_url = None
              /\ ImageInvocations = 0
        /\ caller = "end_scene" => TextInvocations = 5
        /\ caller = "create_scene" => TextInvocations = 6 /\ ImageInvocations = 1

\* C12: a call of AI.add_action that no remote failure aborted has entered the
\* selector node once without a remote call, has winner_index = 0, made
\* exactly 2 text calls and returns the refined text.
C12_SingleCandidateAction ==
    (caller = "add_action" /\ Finished /\ ~RemoteFailure) =>
        /\ final_state # << >>
        /\ invoked[SELECT_WINNER] = 1
        /\ final_state[1].winner_index = <<0>>
        /\ TextInvocations = 2
        /\ final_state[1].refined \in Texts

Has(h, e) == \E i \in DOMAIN h.trace : h.trace[i] = e

\* The handler of the last update is over (it returned or raised).
Over(h) == h.status \in {"done", "failed"}

\* User u has an Action recorded in Scene sc.
Recorded(sc, u) == \E i \in DOMAIN sc.actions : sc.actions[i].user = u

\* C14: once a reply handler whose call of ai.add_action did not give an
\* outcome (it raised, or returned an empty result) is over, the user has no
\* Action in the scene.
C14_FailedActionLeavesNoAction ==
    \A k \in Slots :
        LET h == handlers[k] IN
        (h.kind = "reply" /\ Over(h) /\ Has(h, "add_action") /\ ~Has(h, "outcome")) =>
            (scene # << >> => ~Recorded(scene[1], h.user))

\* C15: a reply to the scene message by a user who has an Action in the scene
\* only posts the warning: ai.add_action is not called and the scene, with
\* that Action and the number of its actions, is as before.
C15_DuplicateReplyRejected ==
    \A k \in Slots :
        LET h == handlers[k] IN
        (/\ h.kind = "reply"
         /\ h.before # << >>
         /\ h.target = h.before[1].message_id
         /\ Recorded(h.before[1], h.user)) =>
            /\ h.status = "done"
            /\ h.trace = <<"warn_duplicate">>
            /\ scene = h.before

C15_Witness ==
    \E k \in Slots :
        LET h == handlers[k] IN
        /\ h.kind = "reply"
        /\ h.trace = <<"warn_duplicate">>
        /\ \E i \in DOMAIN scene[1].actions :
              /\ scene[1].actions[i].user = h.user
              /\ scene[1].actions[i].outcome \in Texts
              /\ scene[1].actions[i].action # h.text

\* C16: a start request handled while a scene is stored never calls
\* ai.create_scene, only posts a warning, and leaves the stored scene (message
\* id, description, actions) as it was.
C16_StartWhileActiveRejected ==
    \A k \in Slots :
        LET h == handlers[k] IN
        (h.kind = "start" /\ h.before # << >>) =>
            /\ h.status = "done"
            /\ h.trace \in {<<"warn_active">>, <<"warn_missing">>}
            /\ scene = h.before

C16_Witness ==
    \E k \in Slots :
        /\ handlers[k].kind = "start"
        /\ handlers[k].trace = <<"warn_active">>
        /\ scene # << >>
        /\ scene[1].actions # << >>

\* C17: once the outcome of an accepted reply is stored and posted and the
\* majority check made, handle_end has been called if and only if the number
\* of Actions in the scene is greater than member_count // 2.
C17_AutoEndIffMajority ==
    \A k \in Slots :
        LET h == handlers[k] IN
        (h.kind = "reply" /\ Has(h, "outcome") /\ h.pc \notin {"majority", "members"}) =>
            /\ scene # << >> => h.replies = Len(scene[1].actions)
            /\ Has(h, "handle_end") <=> (h.replies > h.members \div 2)

C17_Witness ==
    \E k \in Slots :
        LET h == handlers[k] IN
        /\ h.kind = "reply"
        /\ Has(h, "handle_end")
        /\ h.replies = 2
        /\ h.members = 2
        /\ h.before # << >>
        /\ Len(h.before[1].actions) = 1

\* C18: once a handler whose call of ai.end_scene did not give a summary (it
\* raised, or returned an empty result) is over, the scene is still stored
\* and the error message has been posted to the requester.
C18_EndFailureKeepsSceneAndReports ==
    \A k \in Slots :
        LET h == handlers[k] IN
        (Over(h) /\ Has(h, "end_scene") /\ ~Has(h, "summary")) =>
            /\ scene # << >>
            /\ Has(h, "error_end")

\* C19: once a start handler whose call of ai.create_scene did not give a
\* description (it raised, or returned an empty result) is over, no scene is
\* stored, no photo was posted and the error message has been posted to the
\* requester.
C19_CreateFailureStaysNoScene ==
    \A k \in Slots :
        LET h == handlers[k] IN
        (Over(h) /\ Has(h, "create_scene") /\ ~Has(h, "store")) =>
            /\ scene = << >>
            /\ ~Has(h, "photo")
            /\ Has(h, "error_create")

\* C20: a start request without words after the command only posts the
\* warning: ai.create_scene is not called and chat_data, with or without a
\* scene, is as it was.
C20_StartWithoutDescription ==
    \A k \in Slots :
        LET h == handlers[k] IN
        (h.kind = "start" /\ h.words = << >>) =>
            /\ h.status = "done"
            /\ h.trace = <<"warn_missing">>
            /\ scene = h.before

C20_Witness ==
    \E k \in Slots :
        /\ handlers[k].kind = "start"
        /\ handlers[k].words = << >>
        /\ handlers[k].trace = <<"warn_missing">>
        /\ scene # << >>
        /\ scene[1].actions # << >>

\* A start request with a description is taken: its handler goes on to the
\* call of ai.create_scene.
StartAccepted ==
    \E k \in Slots :
        /\ \E words \in StartArgs \ {<< >>} : HandleStart(k, words)
        /\ Has(handlers'[k], "create_scene")

\* C21: a reset handler only sets the reaction and deletes the scene: it calls
\* no method of the AI, does not fail, and leaves chat_data without a scene
\* whether there was one or not; the start request with a description that
\* follows a reset is accepted.
C21_ResetIsUnconditional ==
    /\ [](\A k \in Slots :
            handlers[k].kind = "reset" =>
                /\ handlers[k].status = "done"
                /\ handlers[k].trace = <<"reaction", "delete">>
                /\ scene = << >>)
    /\ [][(/\ \E k \in Slots : handlers[k].kind = "reset"
           /\ \E k \in Slots, words \in StartArgs \ {<< >>} : HandleStart(k, words))
          => StartAccepted]_vars

C21_Witness ==
    \E k \in Slots :
        /\ handlers[k].kind = "reset"
        /\ handlers[k].before # << >>
        /\ handlers[k].before[1].actions # << >>
        /\ scene = << >>

\* C22: a reply handled when no scene is stored, or a reply to another message
\* than the scene message, returns at once: it posts nothing, calls no method
\* of the AI, and chat_data (no scene, or the scene with its actions) is as
\* it was.
C22_StrayReplyIgnored ==
    \A k \in Slots :
        LET h == handlers[k] IN
        (/\ h.kind = "reply"
         /\ \/ h.before = << >>
            \/ h.target # h.before[1].message_id) =>
            /\ h.status = "done"
            /\ h.trace = << >>
            /\ scene = h.before

C22_Witness ==
    \E k \in Slots :
        LET h == handlers[k] IN
        /\ h.kind = "reply"
        /\ h.before # << >>
        /\ h.target # h.before[1].message_id
        /\ ~Recorded(h.before[1], h.user)
        /\ h.before[1].actions # << >>
        /\ h.status = "done"

\* C23: chat_data gets a scene only from a start handler whose ai.create_scene
\* gave a description: the Scene has the id of the scene message just posted,
\* that description and no actions.  A stored scene is never replaced by
\* another one, and it is removed only by a reset handler or by a handle_end
\* (for /end or for a majority) that has posted the summary.
C23_SessionStateMachine ==
    /\ [][(scene = << >> /\ scene' # << >>) =>
            \E k \in Slots :
                /\ CreateSceneReturns(k)
                /\ handlers'[k].kind = "start"
                /\ Has(handlers'[k], "photo")
                /\ scene'[1].message_id = next_message_id
                /\ scene'[1].description \in Texts
                /\ scene'[1].actions = << >>]_vars
    /\ [][(scene # << >> /\ scene' # << >>) =>
            /\ scene'[1].message_id = scene[1].message_id
            /\ scene'[1].description = scene[1].description]_vars
    /\ [][(scene # << >> /\ scene' = << >>) =>
            \E k \in Slots :
                \/ HandleReset(k)
                \/ /\ EndSceneReturns(k)
                   /\ handlers'[k].kind \in {"end", "reply"}
                   /\ Has(handlers'[k], "summary")]_vars

C23_Witness ==
    /\ scene # << >>
    /\ scene[1].message_id = 2
    /\ scene[1].actions = << >>
    /\ \E k \in Slots : handlers[k].kind = "start" /\ Has(handlers[k], "store")

\* Handler k is a reply handler of user u suspended between its reservation
\* and the return of ai.add_action, for the scene that is stored.
InFlight(k, u) ==
    /\ handlers[k].status = "running"
    /\ handlers[k].kind = "reply"
    /\ handlers[k].pc \in {"ack", "add_action"}
    /\ handlers[k].user = u
    /\ Stored(handlers[k].sid)

\* C24: while a reply handler of a user is suspended before or on
\* ai.add_action, the stored scene holds that user's Action with outcome None;
\* a second reply of the user to the scene message handled meanwhile only
\* posts the duplicate warning and leaves the scene as it is, so no two
\* handlers of one user are in flight for one scene.
C24_ReservationBlocksSecondReply ==
    /\ [](\A k \in Slots, u \in Users :
            InFlight(k, u) =>
                /\ \E i \in DOMAIN scene[1].actions :
                      /\ scene[1].actions[i].user = u
                      /\ scene[1].actions[i].outcome = None
                /\ \A j \in Slots \ {k} : ~InFlight(j, u))
    /\ [][\A k, j \in Slots, u \in Users, text \in MessageTexts :
            (/\ j # k
             /\ InFlight(j, u)
             /\ HandleReply(k, u, text, scene[1].message_id)) =>
                /\ handlers'[k].status = "done"
                /\ handlers'[k].trace = <<"warn_duplicate">>
                /\ scene' = scene]_vars

C24_Witness ==
    \E k, j \in Slots, u \in Users :
        /\ InFlight(j, u)
        /\ handlers[j].pc = "add_action"
        /\ handlers[k].kind = "reply"
        /\ handlers[k].user = u
        /\ handlers[k].sid = 0
        /\ handlers[k].trace = <<"warn_duplicate">>

\* The stages after the join, in the order of the edges.
StageOrder == <<SELECT_WINNER, REFINE, VISUALIZE, RENDER>>

\* C25: a post-join stage is never entered twice; a stage is entered only
\* when the stage before it has written its output, and SELECT_WINNER only
\* when every generator branch that was started has returned and none is
\* left; in a run that reached END each of the four was entered exactly once.
C25_StagesOnceInOrder ==
    /\ \A i \in 1..4 : invoked[StageOrder[i]] <= 1
    /\ \A i \in 2..4 :
          invoked[StageOrder[i]] = 1 =>
              /\ invoked[StageOrder[i - 1]] = 1
              /\ outs[StageOrder[i - 1]] # << >>
    /\ invoked[SELECT_WINNER] = 1 =>
          /\ tasks = << >>
          /\ invoked[GENERATE_CANDIDATE] = num_candidates
          /\ Len(outs[GENERATE_CANDIDATE]) = num_candidates
    /\ pc \in {"end", "returned"} =>
          \A i \in 1..4 : invoked[StageOrder[i]] = 1 /\ outs[StageOrder[i]] # << >>

C25_Witness ==
    /\ pc = "returned"
    /\ num_candidates > 1
    /\ selector = "remote"
    /\ visualizer = "remote"
    /\ renderer = "remote"
    /\ \A i \in 1..4 : invoked[StageOrder[i]] = 1

\* C26: the layer has slept once after each failed attempt that was followed
\* by another one, and not after the last attempt, failed or not; each sleep
\* is twice the one before, so an exhausted invocation slept three times, in
\* ratio 1 : 2 : 4.
C26_WaitsDouble ==
    \A r \in Invocations :
        /\ \A i \in 1..(Len(r.waits) - 1) : r.waits[i + 1] = 2 * r.waits[i]
        /\ r.status = "running" => Len(r.waits) = r.calls
        /\ r.status \in {"returned", "raised"} => Len(r.waits) = r.calls - 1
        /\ r.status = "raised" =>
              /\ Len(r.waits) = MaxAttempts - 1
              /\ r.waits[2] = 2 * r.waits[1]
              /\ r.waits[3] = 4 * r.waits[1]

C26_Witness ==
    /\ rw.status = "raised"
    /\ rw.calls = MaxAttempts
    /\ rw.waits = <<1, 2, 4>>
    /\ Len(outs[GENERATE_CANDIDATE]) > 1

\* The first k of the blocks "<i>. <text>", i from 0, one blank line between
\* two of them.
RECURSIVE Blocks(_, _)
Blocks(c, k) ==
    IF k = 0 THEN ""
    ELSE IF k = 1 THEN "0. " \o c[1]
    ELSE Blocks(c, k - 1) \o "\n\n" \o ToString(k - 1) \o ". " \o c[k]

\* C27: join_candidates of K candidates is the K blocks "<i>. <text>", i from
\* 0 in list order, with "\n\n" between two blocks and nothing before the
\* first or after the last; [A, B, C] gives "0. A\n\n1. B\n\n2. C"; the
\* selector is called with that text of the joined candidates.
C27_JoinedCandidatesText ==
    /\ join_candidates(<<"A", "B", "C">>) = "0. A\n\n1. B\n\n2. C"
    /\ join_candidates(<<"A">>) = "0. A"
    /\ invoked[SELECT_WINNER] > 0 =>
          /\ Len(candidates) = num_candidates
          /\ args[SELECT_WINNER] = Blocks(candidates, Len(candidates))

C27_Witness ==
    /\ selector = "remote"
    /\ invoked[SELECT_WINNER] = 1
    /\ candidates = <<"T1", "T2", "T1">>
    /\ args[SELECT_WINNER] = "0. T1\n\n1. T2\n\n2. T1"
    /\ rw.node = SELECT_WINNER
    /\ rw.calls > 0

\* The outcomes that are not None among the first k Actions, in their order,
\* with one blank line between two of them.
RECURSIVE OutcomesText(_, _)
OutcomesText(actions, k) ==
    IF k = 0 THEN ""
    ELSE LET before == OutcomesText(actions, k - 1)
             o == actions[k].outcome
         IN IF o = None THEN before
            ELSE IF before = "" THEN o
            ELSE before \o "\n\n" \o o

\* C28: the outcomes argument of ai.add_action and of ai.end_scene is the text
\* of the outcomes that are not None of the Actions of the handler's scene, in
\* the order the Actions were stored; the replying user's own reservation and
\* the Actions of other replies in flight add nothing to it.
C28_OutcomesTextHandedOver ==
    [][\A k \in Slots :
          (/\ handlers'[k].status = "running"
           /\ handlers'[k].pc \in {"add_action", "end_scene"}
           /\ handlers'[k].pc # handlers[k].pc) =>
              LET held == IF handlers'[k].pc = "add_action"
                          THEN LocalScene(handlers[k].sid)
                          ELSE scene[1]
              IN handlers'[k].outcomes = OutcomesText(held.actions, Len(held.actions))]_vars

C28_Witness ==
    \E k, j \in Slots, u \in Users :
        /\ j # k
        /\ InFlight(j, u)
        /\ Running(k)
        /\ handlers[k].pc = "end_scene"
        /\ handlers[k].outcomes = "T1"
        /\ Len(scene[1].actions) = 2
        /\ scene[1].actions[1].user = u
        /\ scene[1].actions[1].outcome = None
        /\ scene[1].actions[2].outcome = "T1"

\* C29: in a call of an AI method that no remote failure aborted the
\* constructor has accepted the caller's inputs, and each of the
\* num_candidates generator invocations got that sequence as it was built: 1
\* element for scene creation, 2 for scene ending, 4 for an action outcome.
C29_GeneratorReceivesInputs ==
    (caller \in DOMAIN UseCases /\ Finished /\ ~RemoteFailure) =>
        /\ raised = None
        /\ invoked[GENERATE_CANDIDATE] = UseCases[caller].num_candidates
        /\ args[GENERATE_CANDIDATE] = Seed(caller)
        /\ Len(Seed(caller)) = CASE caller = "create_scene" -> 1
                                  [] caller = "end_scene" -> 2
                                  [] caller = "add_action" -> 4

\* C30: candidates changes only at the join; winner_index, refined,
\* visualized and image_url change only in a step of select_winner, refine,
\* visualize and render respectively, which leaves the other four fields as
\* they are; each of the four nodes writes its output once, and no field
\* changes after the node that owns it has written.
C30_StagesWriteOwnField ==
    [][/\ candidates' # candidates =>
             /\ pc = GENERATE_CANDIDATE
             /\ candidates = << >>
             /\ UNCHANGED <<winner_index, refined, visualized, image_url>>
       /\ winner_index' # winner_index =>
             /\ pc = SELECT_WINNER
             /\ outs[SELECT_WINNER] = << >>
             /\ UNCHANGED <<candidates, refined, visualized, image_url>>
       /\ refined' # refined =>
             /\ pc = REFINE
             /\ outs[REFINE] = << >>
             /\ UNCHANGED <<candidates, winner_index, visualized, image_url>>
       /\ visualized' # visualized =>
             /\ pc = VISUALIZE
             /\ outs[VISUALIZE] = << >>
             /\ UNCHANGED <<candidates, winner_index, refined, image_url>>
       /\ image_url' # image_url =>
             /\ pc = RENDER
             /\ outs[RENDER] = << >>
             /\ UNCHANGED <<candidates, winner_index, refined, visualized>>
       /\ \A i \in 1..4 :
             outs'[StageOrder[i]] # outs[StageOrder[i]] =>
                 /\ pc = StageOrder[i]
                 /\ outs[StageOrder[i]] = << >>
                 /\ Len(outs'[StageOrder[i]]) = 1
       /\ invoked[SELECT_WINNER] > 0 => candidates' = candidates]_vars

C30_Witness ==
    /\ pc = "returned"
    /\ Len(candidates) = 3
    /\ winner_index = <<2>>
    /\ refined \in Texts
    /\ visualized \in Texts
    /\ image_url \in Urls
    /\ rw.calls > 1

\* C31: in a chat whose member count stays m and whose ending pipeline never
\* fails, whenever no handler is running a stored scene has at most m // 2
\* Actions.
C31_AtMostHalfRecorded ==
    (/\ member_count # << >>
     /\ \A k \in Slots : ~Running(k)
     /\ scene # << >>) =>
        Len(scene[1].actions) <= member_count[1] \div 2

\* The remote invocations the run has started.
RemoteInvocations == TextInvocations + ImageInvocations

\* C32: when every remote call returns or raises in the end, the run gets to
\* return to its caller or to raise to it; a returned state is complete; no
\* remote invocation makes more than 4 calls and the run starts no more than
\* num_candidates + 4 remote invocations.
C32_RunTerminates ==
    /\ <>Finished
    /\ [](Finished => (final_state # << >>) # (raised # None))
    /\ [](pc = "returned" =>
            /\ Len(final_state[1].candidates) = num_candidates
            /\ final_state[1].winner_index # << >>
            /\ final_state[1].refined \in Texts)
    /\ [](\A r \in Invocations : r.calls <= MaxAttempts)
    /\ [](RemoteInvocations <= num_candidates + 4)

C32_Witness ==
    /\ pc = "returned"
    /\ num_candidates = 3
    /\ RemoteInvocations = num_candidates + 4
    /\ rw.node = RENDER
    /\ rw.calls = MaxAttempts

\* Handler k is a start handler suspended on ai.create_scene.
Creating(k) ==
    /\ Running(k)
    /\ handlers[k].kind = "start"
    /\ handlers[k].pc = "create_scene"

\* C33: with handlers that may overlap, no two start handlers are in the
\* scene-creation pipeline at once, and no step replaces a stored scene by the
\* scene of another start.
C33_OverlappingStartsCreateOnce ==
    /\ [](\A k, j \in Slots : (Creating(k) /\ Creating(j)) => k = j)
    /\ [][(scene # << >> /\ scene' # << >>) =>
            scene'[1].message_id = scene[1].message_id]_vars

====
